---- MODULE Spec2Model ----
(***************************************************************************)
(* Model of django-mcp-assistant: the MCPClient tool-calling loop          *)
(* (mcp_chat/mcp_client.py), the VoIP documentation server's PDF text      *)
(* extraction chain (mcp_chat/mcp_servers.py) and the chat views           *)
(* (mcp_chat/views.py) over the Conversation/Message tables                *)
(* (mcp_chat/models.py).                                                   *)
(*                                                                         *)
(* Python values are modelled as follows.  A str that the code only        *)
(* passes around is a TLA+ string; a str whose characters the code looks   *)
(* at (dict keys tested with startswith, texts that are concatenated) is   *)
(* a sequence of one-character or token strings.  None is PyNone, a dict   *)
(* returned to a caller is PyDict(record), a tool result is PyStr(s) or    *)
(* PyObj(pairs) with pairs the (key, value) items in insertion order.      *)
(***************************************************************************)
EXTENDS Integers, Sequences, FiniteSets, TLC

VARIABLES
    \* ---- MCPClient.send_message (one invocation) ----
    cPc,                 \* "idle" | "loop" | "tools" | "returned" | "raised"
    iteration,           \* local iteration
    messages,            \* local messages (the transcript)
    tool_calls_made,     \* local tool_calls_made
    tool_results,        \* local tool_results of the current tool_use response
    blockIdx,            \* position of the for loop over response.content
    clean_tools,         \* local clean_tools, the tools= argument of every API call
    tools_with_metadata, \* local tools_with_metadata
    result,              \* the value send_message returned
    responses,           \* every response messages.create returned, in order
    callLog,             \* every MCPServer.call_tool invocation, in order
    histLen,             \* len(conversation_history) of the invocation
    allToolsCalls,       \* number of MCPClient.get_all_tools calls so far
    \* ---- VoIPDocsServer._extract_pdf_text (one invocation) ----
    pPc,                 \* "idle" | "validate" | "repair" | "pdftotext" | "pypdf"
                         \* | "pdfplumber" | "best" | "done"
    pdfFile,             \* the file at pdf_path as the call finds it
    pdf_path,            \* "original" | "repaired"
    validation_msg,      \* local validation_msg
    pdftotext_text,      \* local pdftotext_text
    pypdf_text,          \* local pypdf_text
    pdfplumber_text,     \* local pdfplumber_text
    best_method,         \* local best_method
    pdfReturn,           \* the str _extract_pdf_text returned
    pdfTrace,            \* the steps the invocation ran, in order
    \* ---- the views, the session and the two tables ----
    nConv,               \* Conversation rows: their ids are 1..nConv
    convTitle,           \* Conversation.title by id
    dbMessages,          \* Message rows in creation order
    session_conv,        \* request.session["current_conversation_id"], 0 when unset
    vPc,                 \* the send view: "idle" | "saved" | "client"
    reqConv,             \* local conversation of the send request in flight
    reqMessage,          \* local user_message of the send request in flight
    httpStatus,          \* status of the last response a view gave, 0 before any
    sends,               \* send requests so far
    reqRow,              \* position in dbMessages of the row the request in flight
                         \* saved for its user message, 0 when none is in flight
    oPc,                 \* a second send request: "idle" | "saved"
    oConv,               \* its local conversation
    otherSends,          \* second send requests so far
    \* ---- VoIPDocsServer._search_docs (one invocation) ----
    sPc,                 \* "idle" | "txt" | "pdf" | "done"
    docs_dir,            \* the directory as the call finds it
    query,               \* argument query
    max_results,         \* argument max_results
    results,             \* local results
    fileIdx,             \* position of the running for loop over the glob
    searchReturn,        \* the dict _search_docs returned
    \* ---- MCPClient.get_all_resources (one invocation) ----
    rPc,                 \* "idle" | "servers" | "filter" | "done"
    serverIdx,           \* position of the for loop over self.servers.items()
    resources,           \* local resources, what the server at serverIdx listed
    resIdx,              \* position of the for loop over resources
    all_resources        \* local all_resources, returned at the end

clientVars == <<cPc, iteration, messages, tool_calls_made, tool_results, blockIdx,
                clean_tools, tools_with_metadata, result, responses, callLog,
                histLen, allToolsCalls>>

pdfVars == <<pPc, pdfFile, pdf_path, validation_msg, pdftotext_text, pypdf_text,
             pdfplumber_text, best_method, pdfReturn, pdfTrace>>

viewVars == <<nConv, convTitle, dbMessages, session_conv, vPc, reqConv, reqMessage,
              httpStatus, sends, reqRow, oPc, oConv, otherSends>>

\* The second send request.
otherVars == <<oPc, oConv, otherSends>>

searchVars == <<sPc, docs_dir, query, max_results, results, fileIdx, searchReturn>>

resVars == <<rPc, serverIdx, resources, resIdx, all_resources>>

vars == <<clientVars, pdfVars, viewVars, searchVars, resVars>>

\* What a step of send_message, of _extract_pdf_text, of a view, of
\* _search_docs and of get_all_resources leaves alone (the last is given the
\* directory of the documentation server, docs_dir).
notClient == <<pdfVars, viewVars, searchVars, resVars>>
notPdf == <<clientVars, viewVars, searchVars, resVars>>
notView == <<pdfVars, searchVars, resVars, otherVars>>
notSearch == <<clientVars, pdfVars, viewVars, resVars>>
notRes == <<clientVars, pdfVars, viewVars, sPc, query, max_results, results, fileIdx,
            searchReturn>>

----------------------------------------------------------------------------
\* Bounds of the model.

\* Content blocks the model API returns over one send_message invocation.
MaxBlocks == 2

\* get_all_tools calls made by the index view.
MaxAllToolsCalls == 1

\* Conversation rows created.
MaxConversations == 2

\* Send requests made in a run of the views.
MaxSends == 1

\* The largest max_results a search is called with.
MaxResults == 2

\* Text files in the documentation directory.
MaxTxtFiles == 2

\* PDF files in the documentation directory.
MaxPdfFiles == 1

\* Send requests made next to the one that is followed.
MaxOtherSends == 1

----------------------------------------------------------------------------
\* Python values.

PyNone == [py |-> "None"]
PyDict(d) == [py |-> "dict", items |-> d]
PyStr(s) == [py |-> "str", s |-> s]
PyObj(pairs) == [py |-> "object", pairs |-> pairs]
PyList(l) == [py |-> "list", l |-> l]

\* Dict keys, as character sequences.
K_name == <<"n", "a", "m", "e">>
K_description == <<"d", "e", "s", "c">>
K_input_schema == <<"i", "n", "p", "u", "t", "_", "s", "c", "h", "e", "m", "a">>
K_server == <<"_", "s", "e", "r", "v", "e", "r">>

\* str.startswith for a one-character prefix.
StartsWith(k, c) == Len(k) > 0 /\ k[1] = c

\* The sequence s1 \o s2 \o ... of a sequence of sequences.
RECURSIVE Flatten(_)
Flatten(ss) == IF ss = <<>> THEN <<>> ELSE Head(ss) \o Flatten(Tail(ss))

\* The sum of f[1..n] for a sequence of numbers.
RECURSIVE SumSeq(_)
SumSeq(s) == IF s = <<>> THEN 0 ELSE Head(s) + SumSeq(Tail(s))

----------------------------------------------------------------------------
\* The servers and the tools they declare.

\* self.servers, in insertion order.
ServerOrder == <<"voip-docs", "weather">>

ToolDef(name) ==
    (K_name :> name) @@ (K_description :> "description") @@ (K_input_schema :> "schema")

\* VoIPDocsServer.get_tools / WeatherServer.get_tools: a fresh list of fresh dicts.
GetTools(server) ==
    IF server = "voip-docs"
    THEN <<ToolDef("search_voip_docs"), ToolDef("get_sip_message_example"),
           ToolDef("list_available_docs")>>
    ELSE <<ToolDef("get_weather")>>

\* tool["_server"] = server_name
TagTool(tool, server_name) ==
    [k \in DOMAIN tool \cup {K_server} |-> IF k = K_server THEN server_name ELSE tool[k]]

TagAll(tools, server_name) == [i \in 1..Len(tools) |-> TagTool(tools[i], server_name)]

\* MCPClient.get_all_tools
GetAllTools ==
    Flatten([i \in 1..Len(ServerOrder) |-> TagAll(GetTools(ServerOrder[i]), ServerOrder[i])])

\* {k: v for k, v in tool.items() if not k.startswith("_")}
CleanTool(tool) == [k \in {x \in DOMAIN tool : ~StartsWith(x, "_")} |-> tool[k]]

CleanAll(tools) == [i \in 1..Len(tools) |-> CleanTool(tools[i])]

\* The tagged tools of get_all_tools are sent to the API.
GetCleanToolsForApi_Tagged == GetAllTools

\* MCPClient.get_clean_tools_for_api
GetCleanToolsForApi ==
    Flatten([i \in 1..Len(ServerOrder) |-> CleanAll(GetTools(ServerOrder[i]))])

----------------------------------------------------------------------------
\* Tool results.

\* json.dumps(result, indent=2) of a str or of a flat dict of strs, as the
\* sequence of its tokens (white space left out).  A str is a token sequence.
RECURSIVE JsonItems(_)
JsonItems(pairs) ==
    IF pairs = <<>> THEN <<>>
    ELSE (<<"\"", Head(pairs)[1], "\"", ":", "\"">> \o Head(pairs)[2] \o <<"\"">>)
         \o (IF Tail(pairs) = <<>> THEN <<>> ELSE <<",">>)
         \o JsonItems(Tail(pairs))

JsonDumps(v) ==
    IF v.py = "str" THEN <<"\"">> \o v.s \o <<"\"">>
    ELSE <<"{">> \o JsonItems(v.pairs) \o <<"}">>

\* An outcome of a call: it raised, or it returned value.
Raised == [raised |-> TRUE, value |-> PyNone]
Returned(v) == [raised |-> FALSE, value |-> v]

UnknownTool(tool_name) == PyObj(<<<<"error", <<"Unknown tool", tool_name>>>>>>)

\* VoIPDocsServer._get_sip_example: examples.get(message_type, "No example ...")
SipExamples == {"INVITE", "REGISTER", "BYE", "ACK", "CANCEL", "OPTIONS"}
GetSipExample(message_type) ==
    IF message_type \in SipExamples
    THEN PyStr(<<"example", message_type>>)
    ELSE PyStr(<<"No example available for", message_type>>)

\* VoIPDocsServer._search_docs, as far as its caller sees it: the docs directory is
\* missing, or the search ran.
SearchDocs(query_arg) ==
    { PyObj(<<<<"results", <<"[]">>>>, <<"message", <<"Documentation directory not found">>>>>>),
      PyObj(<<<<"results", <<"[..]">>>>, <<"query", <<query_arg>>>>, <<"total_found", <<"n">>>>>>) }

\* VoIPDocsServer.call_tool: arguments[...] raises KeyError on a missing key.
VoIPCallTool(tool_name, arguments) ==
    IF tool_name = "search_voip_docs"
    THEN IF "query" \in DOMAIN arguments
         THEN {Returned(r) : r \in SearchDocs(arguments["query"])}
         ELSE {Raised}
    ELSE IF tool_name = "get_sip_message_example"
    THEN IF "message_type" \in DOMAIN arguments
         THEN {Returned(GetSipExample(arguments["message_type"]))}
         ELSE {Raised}
    ELSE IF tool_name = "list_available_docs"
    THEN {Returned(PyObj(<<<<"documents", <<"[..]">>>>, <<"total_count", <<"n">>>>>>))}
    ELSE {Returned(UnknownTool(tool_name))}

\* WeatherServer.call_tool: _get_weather answers with the weather or with an error.
WeatherCallTool(tool_name, arguments) ==
    IF tool_name = "get_weather"
    THEN IF {"latitude", "longitude"} \subseteq DOMAIN arguments
         THEN { Returned(PyObj(<<<<"location", <<"Unknown">>>>, <<"temperature", <<"t">>>>>>)),
                Returned(PyObj(<<<<"error", <<"Failed to fetch weather">>>>>>)) }
         ELSE {Raised}
    ELSE {Returned(UnknownTool(tool_name))}

\* server.call_tool(tool_name, arguments) of self.servers[server].
CallTool(server, tool_name, arguments) ==
    IF server = "voip-docs" THEN VoIPCallTool(tool_name, arguments)
    ELSE WeatherCallTool(tool_name, arguments)

\* The str-valued server_name when it is None.
NoServer == "None"

\* The server is read from the last tool_def scanned instead of the matching one.
FindServer_LastScanned(tool_defs, tool_name) ==
    IF \A i \in 1..Len(tool_defs) : tool_defs[i][K_name] # tool_name THEN NoServer
    ELSE tool_defs[Len(tool_defs)][K_server]

\* Lines 202-206: the first tool_def whose name is tool_name gives the server.
FindServer(tool_defs, tool_name) ==
    LET hits == {i \in 1..Len(tool_defs) : tool_defs[i][K_name] = tool_name} IN
    IF hits = {} THEN NoServer
    ELSE LET first == CHOOSE i \in hits : \A j \in hits : i <= j IN
         IF K_server \in DOMAIN tool_defs[first] THEN tool_defs[first][K_server]
         ELSE NoServer

ServerNames == {ServerOrder[i] : i \in 1..Len(ServerOrder)}

\* MCPClient.handle_tool_call: the outcomes, each with the call_tool invocation it made.
HandleToolCall(tool_name, tool_input, server_name) ==
    IF server_name \notin ServerNames
    THEN {[out |-> Returned(PyObj(<<<<"error", <<"Unknown server", server_name>>>>>>)),
           calls |-> <<>>]}
    ELSE {[out |-> o, calls |-> <<[server |-> server_name, tool |-> tool_name]>>] :
            o \in CallTool(server_name, tool_name, tool_input)}

\* Line 209
ToolNotFound(tool_name) == PyObj(<<<<"error", <<"Tool not found", tool_name>>>>>>)

\* Lines 208-214: the outcomes of one tool_use block.
RunToolBlock(tool_defs, block) ==
    LET server_name == FindServer(tool_defs, block.name) IN
    IF server_name = NoServer \/ server_name = ""
    THEN {[out |-> Returned(ToolNotFound(block.name)), calls |-> <<>>]}
    ELSE HandleToolCall(block.name, block.input, server_name)

\* The entry is tracked without the result.
ToolCallEntry_NoResult(block, res) ==
    [tools |-> block.name, input |-> block.input, result |-> PyNone]

\* Lines 217-219
ToolCallEntry(block, res) == [tools |-> block.name, input |-> block.input, result |-> res]

\* The tool result is sent back as str(result), not as JSON: the quotes are
\* single quotes.
ToolResultBlock_Unserialised(block, res) ==
    [type |-> "tool_result", tool_use_id |-> block.id,
     content |-> [i \in 1..Len(JsonDumps(res)) |->
                    IF JsonDumps(res)[i] = "\"" THEN "'" ELSE JsonDumps(res)[i]]]

\* Lines 222-228
ToolResultBlock(block, res) ==
    [type |-> "tool_result", tool_use_id |-> block.id, content |-> JsonDumps(res)]

\* The text blocks concatenated last block first.
RECURSIVE FinalResponse_Reversed(_)
FinalResponse_Reversed(content) ==
    IF content = <<>> THEN <<>>
    ELSE FinalResponse_Reversed(Tail(content))
         \o (IF "text" \in DOMAIN Head(content) THEN Head(content).text ELSE <<>>)

\* Lines 240-243: the texts of the blocks that have a text attribute, concatenated.
RECURSIVE FinalResponse(_)
FinalResponse(content) ==
    IF content = <<>> THEN <<>>
    ELSE (IF "text" \in DOMAIN Head(content) THEN Head(content).text ELSE <<>>)
         \o FinalResponse(Tail(content))

----------------------------------------------------------------------------
\* The inputs of send_message: what the caller passes and what the model API answers.

\* A loop bound that is off by one.
max_iterations_OffByOne == 5 + 1

\* max_iterations
max_iterations == 5

UserMessages == {<<"hello">>}

UserMsg(text) == [role |-> "user", content |-> PyStr(text)]
AssistantMsg(text) == [role |-> "assistant", content |-> PyStr(text)]

Histories ==
    {PyNone, PyList(<<>>), PyList(<<UserMsg(<<"earlier">>), AssistantMsg(<<"answer">>)>>)}

TextBlocks == {[type |-> "text", text |-> <<"a">>], [type |-> "text", text |-> <<"b">>]}

ToolUse(name, input) == [type |-> "tool_use", id |-> 0, name |-> name, input |-> input]

\* tool_use blocks as the model API may send them: the declared tools with the
\* arguments they require, one with its required argument missing, and a tool no
\* server declares.
ToolUseBlocks ==
    { ToolUse("search_voip_docs", [query |-> "sip"]),
      ToolUse("search_voip_docs", <<>>),
      ToolUse("get_sip_message_example", [message_type |-> "INVITE"]),
      ToolUse("list_available_docs", <<>>),
      ToolUse("get_weather", [latitude |-> 1, longitude |-> 36]),
      ToolUse("get_time", <<>>) }

Blocks == TextBlocks \cup ToolUseBlocks

\* The API gives every tool_use block an id of its own: here, its position among
\* all the blocks received so far.
WithIds(content, seen) ==
    [i \in 1..Len(content) |->
        IF content[i].type = "tool_use" THEN [content[i] EXCEPT !.id = seen + i]
        ELSE content[i]]

BlocksSeen == SumSeq([i \in 1..Len(responses) |-> Len(responses[i].content)])

StopReasons == {"tool_use", "end_turn"}

\* The responses messages.create may return next.
Responses ==
    { [stop_reason |-> sr, content |-> WithIds(c, BlocksSeen)] :
        sr \in StopReasons,
        c \in UNION {[1..k -> Blocks] : k \in 0..(MaxBlocks - BlocksSeen)} }

----------------------------------------------------------------------------
\* MCPClient.send_message

ClientInit ==
    /\ cPc = "idle"
    /\ iteration = 0
    /\ messages = <<>>
    /\ tool_calls_made = <<>>
    /\ tool_results = <<>>
    /\ blockIdx = 0
    /\ clean_tools = <<>>
    /\ tools_with_metadata = <<>>
    /\ result = PyNone
    /\ responses = <<>>
    /\ callLog = <<>>
    /\ histLen = 0
    /\ allToolsCalls = 0

\* Lines 134-169: everything before the loop.
SendMessageStart(user_message, conversation_history) ==
    LET history == IF conversation_history.py = "None" THEN <<>>
                   ELSE conversation_history.l IN
    /\ cPc = "idle"
    /\ cPc' = "loop"
    /\ messages' = history \o <<UserMsg(user_message)>>
    /\ histLen' = Len(history)
    /\ clean_tools' = GetCleanToolsForApi
    /\ tools_with_metadata' = GetAllTools
    /\ allToolsCalls' = allToolsCalls + 1
    /\ tool_calls_made' = <<>>
    /\ iteration' = 0
    /\ tool_results' = <<>>
    /\ blockIdx' = 0
    /\ result' = PyNone
    /\ responses' = <<>>
    /\ callLog' = <<>>

\* Lines 240-249: the dict send_message returns.
ResultDict(content, calls, transcript) ==
    PyDict([response |-> FinalResponse(content), tool_calls |-> calls,
            conversation |-> transcript])

\* Lines 171-191 and 236-249: one API call; a response that does not ask for
\* tools ends the invocation.
ApiCall(response) ==
    /\ cPc = "loop"
    /\ iteration < max_iterations
    /\ iteration' = iteration + 1
    /\ responses' = Append(responses, response)
    /\ messages' = Append(messages, [role |-> "assistant", content |-> response.content])
    /\ IF response.stop_reason = "tool_use"
       THEN /\ cPc' = "tools"
            /\ tool_results' = <<>>
            /\ blockIdx' = 1
            /\ UNCHANGED result
       ELSE /\ cPc' = "returned"
            /\ result' = ResultDict(response.content, tool_calls_made, messages')
            /\ UNCHANGED <<tool_results, blockIdx>>
    /\ UNCHANGED <<tool_calls_made, clean_tools, tools_with_metadata, callLog,
                   histLen, allToolsCalls>>
    /\ UNCHANGED notClient

\* Line 177: messages.create raises (network error, API error after the retries).
ApiRaise ==
    /\ cPc = "loop"
    /\ iteration < max_iterations
    /\ iteration' = iteration + 1
    /\ cPc' = "raised"
    /\ UNCHANGED <<messages, tool_calls_made, tool_results, blockIdx, clean_tools,
                   tools_with_metadata, result, responses, callLog, histLen,
                   allToolsCalls>>
    /\ UNCHANGED notClient

\* Line 171 false: the while loop ends and the function falls off its end.
LoopExit ==
    /\ cPc = "loop"
    /\ iteration >= max_iterations
    /\ cPc' = "returned"
    /\ result' = PyNone
    /\ UNCHANGED <<iteration, messages, tool_calls_made, tool_results, blockIdx,
                   clean_tools, tools_with_metadata, responses, callLog, histLen,
                   allToolsCalls>>
    /\ UNCHANGED notClient

CurrentContent == responses[Len(responses)].content

\* Lines 195-196: a block that is no tool_use block is passed over.
SkipBlock ==
    /\ cPc = "tools"
    /\ blockIdx <= Len(CurrentContent)
    /\ CurrentContent[blockIdx].type # "tool_use"
    /\ blockIdx' = blockIdx + 1
    /\ UNCHANGED <<cPc, iteration, messages, tool_calls_made, tool_results,
                   clean_tools, tools_with_metadata, result, responses, callLog,
                   histLen, allToolsCalls>>
    /\ UNCHANGED notClient

\* Lines 196-228: a tool_use block is routed, run and recorded; an exception of
\* the tool leaves send_message.
ToolBlock ==
    /\ cPc = "tools"
    /\ blockIdx <= Len(CurrentContent)
    /\ CurrentContent[blockIdx].type = "tool_use"
    /\ LET block == CurrentContent[blockIdx] IN
       \E o \in RunToolBlock(tools_with_metadata, block) :
          /\ callLog' = callLog \o [i \in 1..Len(o.calls) |->
                                      [server |-> o.calls[i].server,
                                       tool |-> o.calls[i].tool,
                                       id |-> block.id,
                                       out |-> o.out]]
          /\ IF o.out.raised
             THEN /\ cPc' = "raised"
                  /\ UNCHANGED <<tool_calls_made, tool_results, blockIdx>>
             ELSE /\ tool_calls_made' =
                       Append(tool_calls_made, ToolCallEntry(block, o.out.value))
                  /\ tool_results' =
                       Append(tool_results, ToolResultBlock(block, o.out.value))
                  /\ blockIdx' = blockIdx + 1
                  /\ UNCHANGED cPc
    /\ UNCHANGED <<iteration, messages, clean_tools, tools_with_metadata, result,
                   responses, histLen, allToolsCalls>>
    /\ UNCHANGED notClient

\* Lines 230-234: the tool results go back as one user message.
ToolsDone ==
    /\ cPc = "tools"
    /\ blockIdx > Len(CurrentContent)
    /\ messages' = Append(messages, [role |-> "user", content |-> tool_results])
    /\ cPc' = "loop"
    /\ UNCHANGED <<iteration, tool_calls_made, tool_results, blockIdx, clean_tools,
                   tools_with_metadata, result, responses, callLog, histLen,
                   allToolsCalls>>
    /\ UNCHANGED notClient

ClientStart ==
    /\ \E um \in UserMessages, hist \in Histories : SendMessageStart(um, hist)
    /\ UNCHANGED notClient

ClientNext ==
    \/ ClientStart
    \/ \E response \in Responses : ApiCall(response)
    \/ ApiRaise
    \/ LoopExit
    \/ SkipBlock
    \/ ToolBlock
    \/ ToolsDone


----------------------------------------------------------------------------
\* Properties of MCPClient.send_message.

Terminated == cPc \in {"returned", "raised"}

\* A rank of the states of one invocation, ordered lexicographically: the API
\* calls still allowed, then the phase, then the blocks still to handle.
Rank ==
    IF cPc = "loop" THEN <<6 - iteration, 0, 0>>
    ELSE IF cPc = "tools" THEN <<6 - iteration, 1, Len(CurrentContent) + 1 - blockIdx>>
    ELSE IF cPc = "idle" THEN <<7, 0, 0>>
    ELSE <<0, 0, 0>>

LexLess(a, b) ==
    \/ a[1] < b[1]
    \/ a[1] = b[1] /\ a[2] < b[2]
    \/ a[1] = b[1] /\ a[2] = b[2] /\ a[3] < b[3]

AllNat(r) == \A i \in 1..3 : r[i] \in Nat

\* C1: one invocation of send_message makes at most 5 calls to the model API,
\* whatever the responses are, and terminates: every step of the invocation
\* lowers a rank that is a triple of naturals, and an invocation that has not
\* terminated can take a step.
C1_AtMostFiveCalls ==
    /\ [](/\ iteration <= 5
          /\ Len(responses) <= 5
          /\ AllNat(Rank)
          /\ (cPc \in {"loop", "tools"} => ENABLED ClientNext))
    /\ [][cPc # "idle" => LexLess(Rank', Rank)]_vars

\* C1 witness: five responses, all with stop reason tool_use, and the invocation over.
C1_Witness ==
    /\ Terminated
    /\ Len(responses) = 5
    /\ \A i \in 1..5 : responses[i].stop_reason = "tool_use"

\* C2: an invocation that does not raise returns a dict with the keys response,
\* tool_calls and conversation.
C2_ReturnsDict ==
    cPc = "returned" =>
        /\ result.py = "dict"
        /\ DOMAIN result.items = {"response", "tool_calls", "conversation"}

\* The texts of the text blocks of a content, concatenated in block order.
TextOf(content) ==
    LET texts == SelectSeq(content, LAMBDA b : b.type = "text") IN
    Flatten([i \in 1..Len(texts) |-> texts[i].text])

\* The tool_use blocks of a content, in block order.
ToolUsesOf(content) == SelectSeq(content, LAMBDA b : b.type = "tool_use")

\* The ids of the tool_use blocks of the responses with stop reason tool_use.
RequestedIds ==
    UNION { {ToolUsesOf(responses[i].content)[j].id :
                j \in 1..Len(ToolUsesOf(responses[i].content))} :
            i \in {x \in 1..Len(responses) : responses[x].stop_reason = "tool_use"} }

LastResponse == responses[Len(responses)]

\* C3: send_message stops at the first response whose stop reason is not tool_use:
\* it is the last response ever received, no tool is called for its blocks, and
\* the returned response is the concatenation, in block order, of the text
\* blocks of that response only.
C3_StopsAtFirstCompletion ==
    /\ \A i \in 1..Len(responses) - 1 : responses[i].stop_reason = "tool_use"
    /\ \A c \in 1..Len(callLog) : callLog[c].id \in RequestedIds
    /\ (responses # <<>> /\ LastResponse.stop_reason # "tool_use") =>
          /\ cPc = "returned"
          /\ result.py = "dict"
          /\ result.items.response = TextOf(LastResponse.content)
          /\ Len(result.items.tool_calls) = Cardinality(RequestedIds)
          /\ ~ ENABLED ClientNext

\* C3 witness: a tool round, then a completing response with two text blocks.
C3_Witness ==
    /\ cPc = "returned"
    /\ Len(responses) >= 2
    /\ LastResponse.stop_reason # "tool_use"
    /\ Len(LastResponse.content) >= 1
    /\ result.py = "dict"
    /\ result.items.response # <<>>

\* The servers that declare a tool of this name.
DeclaredBy(tool_name) ==
    { srv \in ServerNames :
        \E i \in 1..Len(GetTools(srv)) : GetTools(srv)[i][K_name] = tool_name }

DeclaredNames ==
    {"search_voip_docs", "get_sip_message_example", "list_available_docs", "get_weather"}

\* The tool_use blocks whose handling is over: those of the earlier tool rounds
\* and, in the current round, those before blockIdx (and the one at blockIdx when
\* its tool raised).
HandledBlocks ==
    UNION { { responses[i].content[j] :
                j \in { y \in 1..Len(responses[i].content) :
                          /\ responses[i].content[y].type = "tool_use"
                          /\ \/ i < Len(responses)
                             \/ cPc \in {"loop", "returned"}
                             \/ y < blockIdx
                             \/ cPc = "raised" /\ y = blockIdx } } :
            i \in {x \in 1..Len(responses) : responses[x].stop_reason = "tool_use"} }

CallsFor(block) == {c \in 1..Len(callLog) : callLog[c].id = block.id}

\* C4: tool names are unique across the servers, and a tool_use block naming a
\* declared tool is dispatched to call_tool of the server that declares it, once,
\* and to no other server; a block naming no declared tool is dispatched nowhere.
C4_DispatchToOwner ==
    /\ \A n \in DeclaredNames : Cardinality(DeclaredBy(n)) = 1
    /\ \A b \in HandledBlocks :
          IF b.name \in DeclaredNames
          THEN /\ Cardinality(CallsFor(b)) = 1
               /\ \A c \in CallsFor(b) :
                     /\ DeclaredBy(b.name) = {callLog[c].server}
                     /\ callLog[c].tool = b.name
          ELSE CallsFor(b) = {}
    /\ \A c \in 1..Len(callLog) : \E b \in HandledBlocks : b.id = callLog[c].id

\* C4 witness: a tool of each server has been called in one invocation.
C4_Witness ==
    /\ \E c \in 1..Len(callLog) : callLog[c].server = "weather"
    /\ \E c \in 1..Len(callLog) : callLog[c].server = "voip-docs"

\* What the tool of a handled block answered.
ResultOfBlock(block) ==
    IF CallsFor(block) = {} THEN ToolNotFound(block.name)
    ELSE callLog[CHOOSE c \in CallsFor(block) : TRUE].out.value

\* The tool_result blocks owed to the i-th response.
ExpectedToolResults(i) ==
    LET tu == ToolUsesOf(responses[i].content) IN
    [j \in 1..Len(tu) |->
        [type |-> "tool_result", tool_use_id |-> tu[j].id,
         content |-> JsonDumps(ResultOfBlock(tu[j]))]]

\* Where the i-th response sits in the transcript: every earlier response was a
\* tool round, which added two messages.
AssistantIndex(i) == histLen + 2 * i

\* C5: after each response with stop reason tool_use, the next message appended
\* to the transcript is a user message holding one tool_result per tool_use block
\* of that response, in block order, each with the block's tool_use_id and with
\* the JSON serialisation of the tool's result as content.
C5_ToolResultsFollow ==
    /\ Len(messages) <= histLen + 1 + 2 * Len(responses)
    /\ \A i \in 1..Len(responses) :
          /\ messages[AssistantIndex(i)] =
                [role |-> "assistant", content |-> responses[i].content]
          /\ (responses[i].stop_reason = "tool_use" /\ (i < Len(responses) \/ cPc = "loop"))
                => Len(messages) > AssistantIndex(i)
          /\ (responses[i].stop_reason = "tool_use" /\ Len(messages) > AssistantIndex(i))
                => messages[AssistantIndex(i) + 1] =
                      [role |-> "user", content |-> ExpectedToolResults(i)]
          /\ responses[i].stop_reason # "tool_use" => Len(messages) = AssistantIndex(i)

\* C5 witness: a tool round with two tool_use blocks has been answered.
C5_Witness ==
    \E i \in 1..Len(responses) :
        /\ responses[i].stop_reason = "tool_use"
        /\ Len(ToolUsesOf(responses[i].content)) = 2
        /\ Len(messages) > AssistantIndex(i)

\* The entries owed to the i-th response: one per tool_use block, in block order,
\* when its stop reason was tool_use, and none otherwise.
ExpectedToolCalls(i) ==
    IF responses[i].stop_reason = "tool_use"
    THEN LET tu == ToolUsesOf(responses[i].content) IN
         [j \in 1..Len(tu) |->
             [tools |-> tu[j].name, input |-> tu[j].input, result |-> ResultOfBlock(tu[j])]]
    ELSE <<>>

\* C13: the tool_calls list of the dict send_message returns has one entry per
\* tool_use block of the responses whose stop reason was tool_use, in the order
\* of the responses and of the blocks in them, and each entry holds the name and
\* the input of the block and the result its tool gave.
C13_ToolCallsRecorded ==
    (cPc = "returned" /\ result.py = "dict") =>
        result.items.tool_calls =
            Flatten([i \in 1..Len(responses) |-> ExpectedToolCalls(i)])

\* C13 witness: a dict was returned after two tool_use blocks of different tools
\* were handled.
C13_Witness ==
    /\ cPc = "returned"
    /\ result.py = "dict"
    /\ Len(result.items.tool_calls) = 2
    /\ result.items.tool_calls[1].tools # result.items.tool_calls[2].tools
    /\ Len(callLog) >= 1

\* C10: no tool definition sent to the model API has a key beginning with an
\* underscore, however many get_all_tools calls came before.
C10_CleanToolsHaveNoPrivateKeys ==
    /\ \A i \in 1..Len(clean_tools) :
          \A k \in DOMAIN clean_tools[i] : ~ StartsWith(k, "_")
    /\ cPc # "idle" => Len(clean_tools) = Len(tools_with_metadata)

\* C10 witness: an API call was made after get_all_tools had run twice, and the
\* tools used for routing do carry the _server key.
C10_Witness ==
    /\ responses # <<>>
    /\ allToolsCalls >= 2
    /\ \A i \in 1..Len(tools_with_metadata) : K_server \in DOMAIN tools_with_metadata[i]
    /\ Len(clean_tools) = 4

----------------------------------------------------------------------------
\* VoIPDocsServer._extract_pdf_text

\* A str of the extraction chain: its length, how it begins, and the rest of it.
Text(len, head, body) == [len |-> len, head |-> head, body |-> body]

EmptyText == Text(0, "", "")

\* The lengths an extracted text may have, around the success threshold.
TextLens == {0, 20, 40, 500, 501}

\* What pdftotext may write: the text of the document as it is, which may begin
\* with any words, "Error:" among them.
PdftotextTexts ==
    {EmptyText} \cup
    {Text(n, h, "document text") : n \in TextLens \ {0}, h \in {"Error:", "Chapter"}}

\* What pypdf and pdfplumber may build: "\n\n".join of "--- Page n ---\n" + text.
PageTexts ==
    {EmptyText} \cup {Text(n, "--- Page", "document text") : n \in TextLens \ {0}}

\* The files _extract_pdf_text may be given: how the first bytes read, and whether
\* the document inside is damaged.
PdfFiles ==
    {[header |-> "%PDF", corrupt |-> c] : c \in BOOLEAN} \cup
    {[header |-> h, corrupt |-> TRUE] :
        h \in {"null bytes", "other", "missing", "empty", "unreadable"}}

\* VoIPDocsServer._validate_pdf: (is_valid, message)
ValidatePdf(file) ==
    IF file.header = "missing" THEN <<FALSE, "File does not exist">>
    ELSE IF file.header = "empty" THEN <<FALSE, "File is empty">>
    ELSE IF file.header = "unreadable" THEN <<FALSE, "Cannot read file">>
    ELSE IF file.header = "null bytes"
    THEN <<FALSE, "PDF has null bytes at start (possibly corrupted)">>
    ELSE IF file.header # "%PDF" THEN <<FALSE, "Invalid PDF header">>
    ELSE <<TRUE, "Valid PDF header">>

\* VoIPDocsServer._try_repair_pdf: success, or one of its failures (no
\* ghostscript, time out, ghostscript error); ghostscript has nothing to write
\* for a file that is not there.
TryRepairPdf(file) == IF file.header = "missing" THEN {FALSE} ELSE BOOLEAN

\* The threshold of the three extraction methods.
SuccessThreshold == 500

\* A method accepts a text as off by one.
Succeeds_AtThreshold(text) == text.len >= SuccessThreshold

\* len(text) > 500
Succeeds(text) == text.len > SuccessThreshold

\* _extract_with_pdftotext: (text, success); "" and False when the tool is not
\* installed, times out or fails.
ExtractWithPdftotext == {<<EmptyText, FALSE>>} \cup {<<t, Succeeds(t)>> : t \in PdftotextTexts}

\* _extract_pdf_with_pypdf: (text, success); "" and False on an exception.
ExtractPdfWithPypdf == {<<EmptyText, FALSE>>} \cup {<<t, Succeeds(t)>> : t \in PageTexts}

\* _extract_pdf_with_pdfplumber: (text, success); "" and False on an exception.
ExtractPdfWithPdfplumber == {<<EmptyText, FALSE>>} \cup {<<t, Succeeds(t)>> : t \in PageTexts}

\* Line 306
RepairFailedMsg(msg) == Text(33, "Error:", msg)

\* The length of error_msg.
ErrorMsgLen == 665

\* Lines 345-358
ErrorMsg == Text(ErrorMsgLen, "Error:", "Could not extract text from PDF using any method")

\* An insertion that puts x before the entries of its own length.
RECURSIVE InsertByLen_BeforeEqual(_, _)
InsertByLen_BeforeEqual(sorted, x) ==
    IF sorted = <<>> THEN <<x>>
    ELSE IF Head(sorted)[1].len > x[1].len
         THEN <<Head(sorted)>> \o InsertByLen_BeforeEqual(Tail(sorted), x)
         ELSE <<x>> \o sorted

\* list.sort(key=len, reverse=True) is stable: x goes after the entries that are
\* as long or longer.
RECURSIVE InsertByLen(_, _)
InsertByLen(sorted, x) ==
    IF sorted = <<>> THEN <<x>>
    ELSE IF Head(sorted)[1].len >= x[1].len
         THEN <<Head(sorted)>> \o InsertByLen(Tail(sorted), x)
         ELSE <<x>> \o sorted

\* Line 336: all_results.sort(key=lambda x: len(x[0]), reverse=True)
RECURSIVE SortByLenDesc(_)
SortByLenDesc(all_results) ==
    IF all_results = <<>> THEN <<>>
    ELSE InsertByLen(SortByLenDesc(SubSeq(all_results, 1, Len(all_results) - 1)),
                     all_results[Len(all_results)])

PdfInit ==
    /\ pPc = "idle"
    /\ pdfFile = [header |-> "%PDF", corrupt |-> FALSE]
    /\ pdf_path = "original"
    /\ validation_msg = ""
    /\ pdftotext_text = EmptyText
    /\ pypdf_text = EmptyText
    /\ pdfplumber_text = EmptyText
    /\ best_method = ""
    /\ pdfReturn = EmptyText
    /\ pdfTrace = <<>>

\* _extract_pdf_text is called on a file.
PdfStart(file) ==
    /\ pPc = "idle"
    /\ pdfFile' = file
    /\ pPc' = "validate"
    /\ UNCHANGED <<pdf_path, validation_msg, pdftotext_text, pypdf_text,
                   pdfplumber_text, best_method, pdfReturn, pdfTrace>>
    /\ UNCHANGED notPdf

\* Lines 294-298
PdfValidate ==
    /\ pPc = "validate"
    /\ validation_msg' = ValidatePdf(pdfFile)[2]
    /\ pPc' = IF ValidatePdf(pdfFile)[1] THEN "pdftotext" ELSE "repair"
    /\ pdfTrace' = Append(pdfTrace, "validate")
    /\ UNCHANGED <<pdfFile, pdf_path, pdftotext_text, pypdf_text, pdfplumber_text,
                   best_method, pdfReturn>>
    /\ UNCHANGED notPdf

\* Lines 299-306: an invalid file is repaired before any extraction, or given up.
PdfRepair ==
    /\ pPc = "repair"
    /\ pdfTrace' = Append(pdfTrace, "repair")
    /\ \E repair_success \in TryRepairPdf(pdfFile) :
          IF repair_success
          THEN /\ pdf_path' = "repaired"
               /\ pPc' = "pdftotext"
               /\ UNCHANGED pdfReturn
          ELSE /\ pdfReturn' = RepairFailedMsg(validation_msg)
               /\ pPc' = "done"
               /\ UNCHANGED pdf_path
    /\ UNCHANGED <<pdfFile, validation_msg, pdftotext_text, pypdf_text,
                   pdfplumber_text, best_method>>
    /\ UNCHANGED notPdf

\* Lines 308-312
PdfPdftotext ==
    /\ pPc = "pdftotext"
    /\ pdfTrace' = Append(pdfTrace, "pdftotext")
    /\ \E r \in ExtractWithPdftotext :
          /\ pdftotext_text' = r[1]
          /\ IF r[2] THEN pPc' = "done" /\ pdfReturn' = r[1]
             ELSE pPc' = "pypdf" /\ UNCHANGED pdfReturn
    /\ UNCHANGED <<pdfFile, pdf_path, validation_msg, pypdf_text, pdfplumber_text,
                   best_method>>
    /\ UNCHANGED notPdf

\* Lines 314-318
PdfPypdf ==
    /\ pPc = "pypdf"
    /\ pdfTrace' = Append(pdfTrace, "pypdf")
    /\ \E r \in ExtractPdfWithPypdf :
          /\ pypdf_text' = r[1]
          /\ IF r[2] THEN pPc' = "done" /\ pdfReturn' = r[1]
             ELSE pPc' = "pdfplumber" /\ UNCHANGED pdfReturn
    /\ UNCHANGED <<pdfFile, pdf_path, validation_msg, pdftotext_text,
                   pdfplumber_text, best_method>>
    /\ UNCHANGED notPdf

\* Lines 320-326
PdfPdfplumber ==
    /\ pPc = "pdfplumber"
    /\ pdfTrace' = Append(pdfTrace, "pdfplumber")
    /\ \E r \in ExtractPdfWithPdfplumber :
          /\ pdfplumber_text' = r[1]
          /\ IF r[2] THEN pPc' = "done" /\ pdfReturn' = r[1]
             ELSE pPc' = "best" /\ UNCHANGED pdfReturn
    /\ UNCHANGED <<pdfFile, pdf_path, validation_msg, pdftotext_text, pypdf_text,
                   best_method>>
    /\ UNCHANGED notPdf

\* Lines 328-361: no method succeeded; the longest text, or the error message.
PdfBest ==
    /\ pPc = "best"
    /\ pdfTrace' = Append(pdfTrace, "best")
    /\ LET all_results == SortByLenDesc(<< <<pdftotext_text, "pdftotext">>,
                                           <<pypdf_text, "pypdf">>,
                                           <<pdfplumber_text, "pdfplumber">> >>)
           best_text == all_results[1][1]
       IN /\ best_method' = all_results[1][2]
          /\ pdfReturn' = IF best_text.len > 0 THEN best_text ELSE ErrorMsg
    /\ pPc' = "done"
    /\ UNCHANGED <<pdfFile, pdf_path, validation_msg, pdftotext_text, pypdf_text,
                   pdfplumber_text>>
    /\ UNCHANGED notPdf

PdfNext ==
    \/ \E file \in PdfFiles : PdfStart(file)
    \/ PdfValidate
    \/ PdfRepair
    \/ PdfPdftotext
    \/ PdfPypdf
    \/ PdfPdfplumber
    \/ PdfBest

----------------------------------------------------------------------------
\* Properties of VoIPDocsServer._extract_pdf_text.

Methods == <<"pdftotext", "pypdf", "pdfplumber">>

\* The extraction methods the invocation ran, in the order it ran them.
Ran == SelectSeq(pdfTrace, LAMBDA step : step \in {"pdftotext", "pypdf", "pdfplumber"})

\* What a method extracted.
Extracted(method) ==
    IF method = "pdftotext" THEN pdftotext_text
    ELSE IF method = "pypdf" THEN pypdf_text
    ELSE pdfplumber_text

\* A method reports success: it extracted more than 500 characters.
ReportsSuccess(method) == Extracted(method).len > 500

\* C6: on a PDF that passes validation the methods run in the order pdftotext,
\* pypdf, pdfplumber, a method runs only after every earlier one failed, the
\* chain goes on until a method reports success (more than 500 characters) or
\* all three have run, and the text of the first method that reports success is
\* returned without any later method or the repair being run.
C6_FirstSuccessWins ==
    ValidatePdf(pdfFile)[1] =>
        /\ pPc # "repair" /\ \A i \in 1..Len(pdfTrace) : pdfTrace[i] # "repair"
        /\ \A i \in 1..Len(Ran) : Ran[i] = Methods[i]
        /\ \A i \in 1..Len(Ran) :
              ReportsSuccess(Ran[i]) =>
                 /\ i = Len(Ran)
                 /\ pPc = "done"
                 /\ pdfReturn = Extracted(Ran[i])
                 /\ pdfTrace[Len(pdfTrace)] = Ran[i]
        /\ pPc = "done" =>
              \/ Len(Ran) = 3
              \/ Ran # <<>> /\ ReportsSuccess(Ran[Len(Ran)])

\* C6 witness: pdftotext failed, pypdf reported success and its text was returned.
C6_Witness ==
    /\ ValidatePdf(pdfFile)[1]
    /\ pPc = "done"
    /\ Ran = <<"pdftotext", "pypdf">>
    /\ pdftotext_text.len > 0
    /\ pdfReturn = pypdf_text

NoneSucceeded ==
    /\ pPc = "done"
    /\ Len(Ran) = 3
    /\ \A i \in 1..3 : ~ ReportsSuccess(Methods[i])

\* The earliest method, in the order pdftotext, pypdf, pdfplumber, among those
\* that extracted the longest text.
LongestMethod ==
    LET longest(i) == \A j \in 1..3 : Extracted(Methods[j]).len <= Extracted(Methods[i]).len
    IN Methods[CHOOSE i \in 1..3 : longest(i) /\ \A j \in 1..3 : longest(j) => i <= j]

AllEmpty == \A i \in 1..3 : Extracted(Methods[i]).len = 0

\* C7 as stated: when no method reports success, the longest text is returned if
\* it is non-empty (a tie goes to the earlier method), and what is returned
\* begins with "Error:" exactly when all three texts are empty.
C7_ErrorPrefixIffAllEmpty ==
    NoneSucceeded =>
        /\ ~ AllEmpty => pdfReturn = Extracted(LongestMethod) /\ best_method = LongestMethod
        /\ pdfReturn.head = "Error:" <=> AllEmpty

\* C7 as amended: when no method reports success, the longest text is returned
\* as it is if it is non-empty (a tie goes to the earlier method), and the
\* "Error: Could not extract text from PDF using any method" message is returned
\* exactly when all three texts are empty.
C7_LongestOrErrorMsg ==
    NoneSucceeded =>
        /\ ~ AllEmpty => pdfReturn = Extracted(LongestMethod) /\ best_method = LongestMethod
        /\ pdfReturn = ErrorMsg <=> AllEmpty

\* C7 witness: pypdf and pdfplumber extracted texts of one length, longer than
\* pdftotext's, and pypdf's was returned.
C7_Witness ==
    /\ NoneSucceeded
    /\ pypdf_text.len = pdfplumber_text.len
    /\ pdftotext_text.len < pypdf_text.len
    /\ pdftotext_text.len > 0
    /\ best_method = "pypdf"
    /\ pdfReturn = pypdf_text

\* C8: when all three methods have failed on a PDF that is corrupted, a repair
\* is attempted after them and the extraction is run again on the repaired file.
C8_RepairAfterFailure ==
    (NoneSucceeded /\ pdfFile.corrupt) =>
        \E i, j, k \in 1..Len(pdfTrace) :
            /\ i < j /\ j < k
            /\ pdfTrace[i] = "pdfplumber"
            /\ pdfTrace[j] = "repair"
            /\ pdfTrace[k] \in {"pdftotext", "pypdf", "pdfplumber"}

----------------------------------------------------------------------------
\* VoIPDocsServer._search_docs.  A str is the sequence of its characters.

\* str.lower() of a character, for the characters of the documents below.
LowerChar(c) ==
    CASE c = "S" -> "s"
      [] c = "I" -> "i"
      [] c = "P" -> "p"
      [] c = "E" -> "e"
      [] c = "F" -> "f"
      [] c = "W" -> "w"
      [] c = "T" -> "t"
      [] c = "C" -> "c"
      [] c = "H" -> "h"
      [] OTHER -> c

\* str.lower()
Lower(text) == [i \in 1..Len(text) |-> LowerChar(text[i])]

\* sub in text
Contains(text, sub) ==
    \E i \in 0..(Len(text) - Len(sub)) : SubSeq(text, i + 1, i + Len(sub)) = sub

\* text.startswith(prefix)
StartsWithStr(text, prefix) ==
    Len(text) >= Len(prefix) /\ SubSeq(text, 1, Len(prefix)) = prefix

NL == "\n"

\* text.split("\n"): the lines of text, one more than it has newlines.
RECURSIVE SplitLines(_, _)
SplitLines(text, line) ==
    IF text = <<>> THEN <<line>>
    ELSE IF Head(text) = NL THEN <<line>> \o SplitLines(Tail(text), <<>>)
    ELSE SplitLines(Tail(text), Append(line, Head(text)))

Split(text) == SplitLines(text, <<>>)

\* "\n".join(lines)
RECURSIVE Join(_)
Join(lines) ==
    IF lines = <<>> THEN <<>>
    ELSE IF Len(lines) = 1 THEN lines[1]
    ELSE lines[1] \o <<NL>> \o Join(Tail(lines))

Max2(a, b) == IF a > b THEN a ELSE b
Min2(a, b) == IF a < b THEN a ELSE b

\* lines[start:end] for 0 <= start, end <= len(lines)
Slice(seq, start, end) == SubSeq(seq, start + 1, end)

\* seq[:n] for n >= 0
Prefix(seq, n) == SubSeq(seq, 1, Min2(n, Len(seq)))

\* The whole list is kept.
Truncate_Whole(seq, n) == seq

\* Lines 499, 539 and 551: seq[:max_results]
Truncate(seq, n) == Prefix(seq, n)

\* Lines 486-488: the matching line with two lines before it and two after.
ContextOf(lines, i) == Join(Slice(lines, Max2(0, i - 2), Min2(Len(lines), i + 3)))

\* Lines 484-492: the for loop over enumerate(lines), from index i on.
RECURSIVE ScanLines(_, _, _, _, _)
ScanLines(lines, i, matches, query_lower, limit) ==
    IF i >= Len(lines) THEN matches
    ELSE IF Contains(Lower(lines[i + 1]), query_lower)
    THEN LET found == Append(matches, ContextOf(lines, i))
         IN IF Len(found) >= limit THEN found
            ELSE ScanLines(lines, i + 1, found, query_lower, limit)
    ELSE ScanLines(lines, i + 1, matches, query_lower, limit)

\* Lines 480-501 and 520-541: the entry a document adds to results, if any.
EntriesOf(name, type, content, query_lower, limit) ==
    IF Contains(Lower(content), query_lower)
    THEN LET matches == ScanLines(Split(content), 0, <<>>, query_lower, limit)
         IN IF matches # <<>>
            THEN <<[file |-> name, type |-> type, matches |-> Truncate(matches, limit)]>>
            ELSE <<>>
    ELSE <<>>

\* Lines of the documents.
LineSIP == <<"S", "I", "P">>
LineX == <<"x">>
LineSipX == <<"s", "i", "p", " ", "x">>

\* The text files a documentation directory may hold: what read_text gives, or
\* PyNone where read_text raises.
TxtPool ==
    { [name |-> "SIP-rfc.txt", stem |-> <<"S", "I", "P", "-", "r", "f", "c">>,
       content |-> PyStr(Join(<<LineSIP, LineX, LineSipX, LineX, LineX, LineX, LineSIP>>))],
      [name |-> "notes.txt", stem |-> <<"n", "o", "t", "e", "s">>,
       content |-> PyStr(Join(<<LineX, LineSipX>>))],
      [name |-> "gossip.txt", stem |-> <<"g", "o", "s", "s", "i", "p">>,
       content |-> PyStr(Join(<<<<"p">>, <<"s">>>>))],
      [name |-> "FreeSWITCH.txt",
       stem |-> <<"F", "r", "e", "e", "S", "W", "I", "T", "C", "H">>,
       content |-> PyNone] }

\* The PDF files it may hold: what _extract_pdf_text gives.
PdfPool ==
    { [name |-> "guide.pdf", stem |-> <<"g", "u", "i", "d", "e">>,
       content |-> PyStr(Join(<<LineX, LineSIP, LineSIP>>))],
      [name |-> "Sip_scan.pdf", stem |-> <<"S", "i", "p", "_", "s", "c", "a", "n">>,
       content |-> PyStr(<<"E", "r", "r", "o", "r", ":", " ", "s", "i", "p">>)] }

\* The orders in which a glob may yield at most n files of a pool.
Globs(pool, n) ==
    { files \in UNION { [1..k -> pool] : k \in 0..n } :
        \A i, j \in 1..Len(files) : i # j => files[i] # files[j] }

\* The directories a call may find.
DocsDirs ==
    { [exists |-> FALSE, txt |-> <<>>, pdf |-> <<>>] } \cup
    { [exists |-> TRUE, txt |-> t, pdf |-> f] :
        t \in Globs(TxtPool, MaxTxtFiles), f \in Globs(PdfPool, MaxPdfFiles) }

\* The queries a call is made with.
Queries ==
    { <<>>, <<"s", "i", "p">>, <<"S", "I", "P">>, <<"p", NL, "s">>, <<"z">> }

ErrorPrefix == <<"E", "r", "r", "o", "r", ":">>

SearchInit ==
    /\ sPc = "idle"
    /\ docs_dir = [exists |-> FALSE, txt |-> <<>>, pdf |-> <<>>]
    /\ query = <<>>
    /\ max_results = 0
    /\ results = <<>>
    /\ fileIdx = 0
    /\ searchReturn = PyNone

\* Lines 461-467: the call, with its arguments.
SearchStart(dir, q, n) ==
    /\ sPc = "idle"
    /\ docs_dir' = dir
    /\ query' = q
    /\ max_results' = n
    /\ results' = <<>>
    /\ fileIdx' = 1
    /\ sPc' = "txt"
    /\ UNCHANGED searchReturn
    /\ UNCHANGED notSearch

\* Lines 469-473
SearchNoDir ==
    /\ sPc = "txt"
    /\ ~ docs_dir.exists
    /\ searchReturn' = PyDict([results |-> <<>>, message |-> "not found"])
    /\ sPc' = "done"
    /\ UNCHANGED <<docs_dir, query, max_results, results, fileIdx>>
    /\ UNCHANGED notSearch

\* Lines 476-506: one text file.
SearchTxtFile ==
    /\ sPc = "txt"
    /\ docs_dir.exists
    /\ fileIdx <= Len(docs_dir.txt)
    /\ LET doc_file == docs_dir.txt[fileIdx]
       IN results' = IF doc_file.content.py = "None" THEN results
                     ELSE results \o EntriesOf(doc_file.name, "text", doc_file.content.s,
                                               Lower(query), max_results)
    /\ fileIdx' = fileIdx + 1
    /\ UNCHANGED <<sPc, docs_dir, query, max_results, searchReturn>>
    /\ UNCHANGED notSearch

\* Line 509: the text files are done.
SearchPdfFiles ==
    /\ sPc = "txt"
    /\ docs_dir.exists
    /\ fileIdx > Len(docs_dir.txt)
    /\ fileIdx' = 1
    /\ sPc' = "pdf"
    /\ UNCHANGED <<docs_dir, query, max_results, results, searchReturn>>
    /\ UNCHANGED notSearch

\* Lines 509-546: one PDF file.
SearchPdfFile ==
    /\ sPc = "pdf"
    /\ fileIdx <= Len(docs_dir.pdf)
    /\ LET doc_file == docs_dir.pdf[fileIdx]
       IN results' = IF StartsWithStr(doc_file.content.s, ErrorPrefix) THEN results
                     ELSE results \o EntriesOf(doc_file.name, "pdf", doc_file.content.s,
                                               Lower(query), max_results)
    /\ fileIdx' = fileIdx + 1
    /\ UNCHANGED <<sPc, docs_dir, query, max_results, searchReturn>>
    /\ UNCHANGED notSearch

\* Lines 548-554
SearchReturn ==
    /\ sPc = "pdf"
    /\ fileIdx > Len(docs_dir.pdf)
    /\ searchReturn' = PyDict([results |-> Truncate(results, max_results),
                               query |-> query,
                               total_found |-> Len(results)])
    /\ sPc' = "done"
    /\ UNCHANGED <<docs_dir, query, max_results, results, fileIdx>>
    /\ UNCHANGED notSearch

SearchNext ==
    \/ \E dir \in DocsDirs, q \in Queries, n \in 0..MaxResults : SearchStart(dir, q, n)
    \/ SearchNoDir
    \/ SearchTxtFile
    \/ SearchPdfFiles
    \/ SearchPdfFile
    \/ SearchReturn

\* C11: when _search_docs was called with max_results >= 1, the dict it returns
\* has at most max_results file entries, each entry has at least one match and
\* at most max_results, and every match has a line that contains the query when
\* both are lower-cased.
C11_SearchBounded ==
    (sPc = "done" /\ max_results >= 1) =>
        LET entries == searchReturn.items.results IN
        /\ Len(entries) <= max_results
        /\ \A e \in 1..Len(entries) :
              /\ Len(entries[e].matches) >= 1
              /\ Len(entries[e].matches) <= max_results
              /\ \A m \in 1..Len(entries[e].matches) :
                    \E l \in 1..Len(Split(entries[e].matches[m])) :
                        Contains(Lower(Split(entries[e].matches[m])[l]), Lower(query))

\* C11 witness: a search for "SIP" with max_results 1 found two files, returned
\* one entry, and its one match is a context of several lines.
C11_Witness ==
    /\ sPc = "done"
    /\ docs_dir.exists
    /\ max_results = 1
    /\ query = <<"S", "I", "P">>
    /\ searchReturn.items.total_found >= 2
    /\ Len(searchReturn.items.results) = 1
    /\ Len(searchReturn.items.results[1].matches) = 1
    /\ Len(Split(searchReturn.items.results[1].matches[1])) = 3

----------------------------------------------------------------------------
\* MCPClient.get_all_resources over MCPServer.get_resources.

\* mcp_servers.py lines 421-439: the resource of a file.
ResourceOf(doc_file, mimeType) ==
    [uri |-> doc_file.name, name |-> doc_file.stem, description |-> doc_file.stem,
     mimeType |-> mimeType]

\* VoIPDocsServer.get_resources (413-442) and WeatherServer.get_resources (707-708).
GetResources(server_name, dir) ==
    IF server_name = "voip-docs" /\ dir.exists
    THEN [i \in 1..Len(dir.txt) |-> ResourceOf(dir.txt[i], "text/plain")]
         \o [i \in 1..Len(dir.pdf) |-> ResourceOf(dir.pdf[i], "application/pdf")]
    ELSE <<>>

Str_freeswitch == <<"f", "r", "e", "e", "s", "w", "i", "t", "c", "h">>
Str_sip == <<"s", "i", "p">>

\* The name is tested as it is spelt.
Wanted_AsSpelt(resource) ==
    Contains(resource.name, Str_freeswitch) \/ Contains(resource.name, Str_sip)

\* mcp_client.py lines 90-92
Wanted(resource) ==
    LET resource_name == Lower(resource.name)
    IN Contains(resource_name, Str_freeswitch) \/ Contains(resource_name, Str_sip)

\* Lines 93-95: resource["_server"] = server_name
TagResource(resource, server_name) ==
    [k \in DOMAIN resource \cup {"_server"} |->
        IF k = "_server" THEN server_name ELSE resource[k]]

ResInit ==
    /\ rPc = "idle"
    /\ serverIdx = 0
    /\ resources = <<>>
    /\ resIdx = 0
    /\ all_resources = <<>>

\* Lines 81-83: the call, with the documentation directory as it is then.
ResourcesStart(dir) ==
    /\ rPc = "idle"
    /\ docs_dir' = dir
    /\ all_resources' = <<>>
    /\ serverIdx' = 1
    /\ rPc' = "servers"
    /\ UNCHANGED <<resources, resIdx>>
    /\ UNCHANGED notRes

\* Lines 85-86: the next server lists its resources.
ResourcesOfServer ==
    /\ rPc = "servers"
    /\ serverIdx <= Len(ServerOrder)
    /\ resources' = GetResources(ServerOrder[serverIdx], docs_dir)
    /\ resIdx' = 1
    /\ rPc' = "filter"
    /\ UNCHANGED <<serverIdx, all_resources, docs_dir>>
    /\ UNCHANGED notRes

\* Lines 89-96: one resource is tagged and kept, or left out.
ResourceFilter ==
    /\ rPc = "filter"
    /\ resIdx <= Len(resources)
    /\ all_resources' =
          IF Wanted(resources[resIdx])
          THEN Append(all_resources, TagResource(resources[resIdx], ServerOrder[serverIdx]))
          ELSE all_resources
    /\ resIdx' = resIdx + 1
    /\ UNCHANGED <<rPc, serverIdx, resources, docs_dir>>
    /\ UNCHANGED notRes

\* Line 85: the resources of the server are done.
ResourcesNextServer ==
    /\ rPc = "filter"
    /\ resIdx > Len(resources)
    /\ serverIdx' = serverIdx + 1
    /\ rPc' = "servers"
    /\ UNCHANGED <<resources, resIdx, all_resources, docs_dir>>
    /\ UNCHANGED notRes

\* Line 97
ResourcesReturn ==
    /\ rPc = "servers"
    /\ serverIdx > Len(ServerOrder)
    /\ rPc' = "done"
    /\ UNCHANGED <<serverIdx, resources, resIdx, all_resources, docs_dir>>
    /\ UNCHANGED notRes

ResNext ==
    \/ \E dir \in DocsDirs : ResourcesStart(dir)
    \/ ResourcesOfServer
    \/ ResourceFilter
    \/ ResourcesNextServer
    \/ ResourcesReturn

\* The resources a server lists whose lower-cased name has "freeswitch" or "sip"
\* in it, each with the server's name under "_server".
ListedAndWanted(server_name) ==
    LET listed == GetResources(server_name, docs_dir)
        kept == SelectSeq(listed,
                          LAMBDA r : \/ Contains(Lower(r.name), <<"s", "i", "p">>)
                                     \/ Contains(Lower(r.name), Str_freeswitch))
    IN [i \in 1..Len(kept) |->
           [k \in {"uri", "name", "description", "mimeType", "_server"} |->
               IF k = "_server" THEN server_name ELSE kept[i][k]]]

\* C14: get_all_resources returns the resources the servers list whose
\* lower-cased name contains "freeswitch" or "sip", and no other, each tagged
\* with the name of the server that listed it, the resources of voip-docs before
\* those of weather and each server's in the order it listed them.
C14_ResourcesFiltered ==
    rPc = "done" =>
        all_resources = ListedAndWanted("voip-docs") \o ListedAndWanted("weather")

\* C14 witness: of three files listed, the two whose names have "SIP" and "Sip"
\* in them were returned and the third was left out.
C14_Witness ==
    /\ rPc = "done"
    /\ Len(docs_dir.txt) + Len(docs_dir.pdf) = 3
    /\ Len(all_resources) = 2
    /\ all_resources[1].name = <<"S", "I", "P", "-", "r", "f", "c">>
    /\ all_resources[2].mimeType = "application/pdf"
    /\ all_resources[2]["_server"] = "voip-docs"

----------------------------------------------------------------------------
\* The views (views.py) over the Conversation and Message tables (models.py).

\* str.strip() of a character sequence.
RECURSIVE LStrip(_)
LStrip(text) == IF text # <<>> /\ Head(text) = " " THEN LStrip(Tail(text)) ELSE text

RECURSIVE RStrip(_)
RStrip(text) ==
    IF text # <<>> /\ text[Len(text)] = " " THEN RStrip(SubSeq(text, 1, Len(text) - 1))
    ELSE text

Strip(text) == RStrip(LStrip(text))

\* The length up to which a first message is the title.
TitleLimit == 50

\* A message of one character more than the title takes.
LongMessage == [i \in 1..TitleLimit + 1 |-> "x"]

\* request.POST.get("message", ""), as a character sequence.
RawMessages == {<<>>, <<" ", " ">>, <<" ", "h", "i", " ">>, LongMessage}

\* Conversation.title default
NewChat == <<"New Chat">>

\* Lines 96-99: user_message[:50] + "..." if len(user_message) > 50 else user_message
TitleOf(user_message) ==
    IF Len(user_message) > TitleLimit
    THEN SubSeq(user_message, 1, TitleLimit) \o <<".", ".", ".">>
    ELSE user_message

\* A Message row.
MessageRow(conversation, role, content, tool_calls) ==
    [conversation |-> conversation, role |-> role, content |-> content,
     tool_calls |-> tool_calls]

\* The empty list is stored as it is.
ToolCallsField_KeepEmpty(tool_calls) == PyList(tool_calls)

\* Line 91: tool_calls if tool_calls else None
ToolCallsField(tool_calls) == IF tool_calls = <<>> THEN PyNone ELSE PyList(tool_calls)

\* conversation.messages.all(): the rows of the conversation, by created_at.
MessagesOf(conversation) ==
    SelectSeq(dbMessages, LAMBDA row : row.conversation = conversation)

\* Lines 73-77: the rows but the last, those of role user or assistant, as dicts.
HistoryOf(rows) ==
    LET earlier == SelectSeq(SubSeq(rows, 1, Len(rows) - 1),
                             LAMBDA row : row.role \in {"user", "assistant"})
    IN [i \in 1..Len(earlier) |->
           [role |-> earlier[i].role, content |-> PyStr(earlier[i].content)]]

\* The responses the model API gives in the runs of the views: a completion,
\* and a tool round with a text block and a tool_use block.
ViewResponses ==
    { [stop_reason |-> "end_turn", content |-> <<[type |-> "text", text |-> <<"a">>]>>],
      [stop_reason |-> "tool_use",
       content |-> WithIds(<<[type |-> "text", text |-> <<"b">>],
                             ToolUse("get_sip_message_example",
                                     [message_type |-> "INVITE"])>>, BlocksSeen)] }

ViewInit ==
    /\ nConv = 0
    /\ convTitle = <<>>
    /\ dbMessages = <<>>
    /\ session_conv = 0
    /\ vPc = "idle"
    /\ reqConv = 0
    /\ reqMessage = <<>>
    /\ httpStatus = 0
    /\ sends = 0
    /\ reqRow = 0
    /\ oPc = "idle"
    /\ oConv = 0
    /\ otherSends = 0

\* The lookup finds a row whatever the id.
Exists_Any(conversation_id) == conversation_id >= 0

\* Conversation.objects.get(id=...) finds a row.
Exists(conversation_id) == conversation_id \in 1..nConv

\* The other views are served between send requests and while one awaits, after
\* its user message is saved.  A send request reads the session at lines 56-63
\* only and the other views touch no Message row, so where in the rest of the
\* request they are served makes no difference to either.
Served == vPc \in {"idle", "saved"}

\* views.index: the current conversation is looked up or created, and the page
\* is rendered with mcp_client.get_all_tools().
Index ==
    /\ Served
    /\ allToolsCalls < MaxAllToolsCalls
    /\ IF session_conv # 0 /\ Exists(session_conv)
       THEN UNCHANGED <<nConv, convTitle, session_conv>>
       ELSE /\ nConv < MaxConversations
            /\ nConv' = nConv + 1
            /\ convTitle' = Append(convTitle, NewChat)
            /\ session_conv' = nConv + 1
    /\ allToolsCalls' = allToolsCalls + 1
    /\ httpStatus' = 200
    /\ UNCHANGED <<dbMessages, vPc, reqConv, reqMessage, reqRow, sends>>
    /\ UNCHANGED <<cPc, iteration, messages, tool_calls_made, tool_results, blockIdx,
                   clean_tools, tools_with_metadata, result, responses, callLog,
                   histLen>>
    /\ UNCHANGED notView

\* views.new_conversation
NewConversation ==
    /\ Served
    /\ nConv < MaxConversations
    /\ nConv' = nConv + 1
    /\ convTitle' = Append(convTitle, NewChat)
    /\ session_conv' = nConv + 1
    /\ httpStatus' = 302
    /\ UNCHANGED <<dbMessages, vPc, reqConv, reqMessage, reqRow, sends>>
    /\ UNCHANGED <<clientVars, notView>>

\* views.switch_conversation
SwitchConversation(conversation_id) ==
    /\ Served
    /\ IF Exists(conversation_id)
       THEN session_conv' = conversation_id /\ httpStatus' = 302
       ELSE httpStatus' = 404 /\ UNCHANGED session_conv
    /\ UNCHANGED <<nConv, convTitle, dbMessages, vPc, reqConv, reqMessage, reqRow, sends>>
    /\ UNCHANGED <<clientVars, notView>>

\* views.send_message, lines 50-68: the message is checked, the conversation
\* of the session looked up, and the user message saved.
SendOpen(raw) ==
    LET user_message == Strip(raw) IN
    /\ vPc = "idle"
    /\ sends < MaxSends
    /\ sends' = sends + 1
    /\ IF user_message = <<>>
       THEN /\ httpStatus' = 400
            /\ UNCHANGED <<dbMessages, vPc, reqConv, reqMessage, reqRow>>
       ELSE IF ~ Exists(session_conv)
       THEN /\ httpStatus' = 404
            /\ UNCHANGED <<dbMessages, vPc, reqConv, reqMessage, reqRow>>
       ELSE /\ dbMessages' = Append(dbMessages,
                                    MessageRow(session_conv, "user", user_message, PyNone))
            /\ reqConv' = session_conv
            /\ reqMessage' = user_message
            /\ reqRow' = Len(dbMessages) + 1
            /\ vPc' = "saved"
            /\ UNCHANGED httpStatus
    /\ UNCHANGED <<nConv, convTitle, session_conv>>
    /\ UNCHANGED <<clientVars, notView>>

\* Lines 70-81: the history is built from the rows of the conversation and
\* mcp_client.send_message is called.
SendCallClient ==
    /\ vPc = "saved"
    /\ SendMessageStart(reqMessage, PyList(HistoryOf(MessagesOf(reqConv))))
    /\ vPc' = "client"
    /\ UNCHANGED <<nConv, convTitle, dbMessages, session_conv, reqConv, reqMessage, reqRow,
                   httpStatus, sends>>
    /\ UNCHANGED notView

\* The locals of a send_message invocation that is over are gone, as are those
\* of the view that awaited it.
ClientReturn ==
    /\ cPc' = "idle"
    /\ iteration' = 0
    /\ messages' = <<>>
    /\ tool_calls_made' = <<>>
    /\ tool_results' = <<>>
    /\ blockIdx' = 0
    /\ clean_tools' = <<>>
    /\ tools_with_metadata' = <<>>
    /\ result' = PyNone
    /\ responses' = <<>>
    /\ callLog' = <<>>
    /\ histLen' = 0
    /\ UNCHANGED allToolsCalls

\* Lines 83-109: the client returned a dict; the assistant message is saved, the
\* title is set when these are the first two messages, and 200 is answered.
SendFinish ==
    /\ vPc = "client"
    /\ cPc = "returned"
    /\ result.py = "dict"
    /\ LET assistant_response == result.items.response
           tool_calls == result.items.tool_calls
       IN dbMessages' = Append(dbMessages,
                               MessageRow(reqConv, "assistant", assistant_response,
                                          ToolCallsField(tool_calls)))
    /\ convTitle' = IF Len(SelectSeq(dbMessages', LAMBDA row : row.conversation = reqConv)) = 2
                    THEN [convTitle EXCEPT ![reqConv] = TitleOf(reqMessage)]
                    ELSE convTitle
    /\ httpStatus' = 200
    /\ vPc' = "idle"
    /\ ClientReturn
    /\ reqConv' = 0
    /\ reqMessage' = <<>>
    /\ reqRow' = 0
    /\ UNCHANGED <<nConv, session_conv, sends>>
    /\ UNCHANGED notView

\* Lines 111-114: the client raised, or returned None so that result["response"]
\* raised; 500 is answered.
SendFail ==
    /\ vPc = "client"
    /\ \/ cPc = "raised"
       \/ cPc = "returned" /\ result.py # "dict"
    /\ httpStatus' = 500
    /\ vPc' = "idle"
    /\ ClientReturn
    /\ reqConv' = 0
    /\ reqMessage' = <<>>
    /\ reqRow' = 0
    /\ UNCHANGED <<nConv, convTitle, dbMessages, session_conv, sends>>
    /\ UNCHANGED notView

\* The message of the second send request.
OtherMessage == <<"y", "o">>

\* A second send request, lines 50-68: it runs the same view for the same
\* session next to the first, and saves its user message.
OtherSendSaves ==
    /\ oPc = "idle"
    /\ otherSends < MaxOtherSends
    /\ otherSends' = otherSends + 1
    /\ IF ~ Exists(session_conv)
       THEN /\ httpStatus' = 404
            /\ UNCHANGED <<dbMessages, oPc, oConv>>
       ELSE /\ dbMessages' = Append(dbMessages,
                                    MessageRow(session_conv, "user", OtherMessage, PyNone))
            /\ oConv' = session_conv
            /\ oPc' = "saved"
            /\ UNCHANGED httpStatus
    /\ UNCHANGED <<nConv, convTitle, session_conv, vPc, reqConv, reqMessage, reqRow, sends>>
    /\ UNCHANGED <<clientVars, pdfVars, searchVars, resVars>>

\* The second send request, lines 83-109: its client call returned a text and
\* no tool calls.
OtherSendFinish ==
    /\ oPc = "saved"
    /\ dbMessages' = Append(dbMessages,
                            MessageRow(oConv, "assistant", <<"a">>, ToolCallsField(<<>>)))
    /\ convTitle' = IF Len(SelectSeq(dbMessages', LAMBDA row : row.conversation = oConv)) = 2
                    THEN [convTitle EXCEPT ![oConv] = TitleOf(OtherMessage)]
                    ELSE convTitle
    /\ httpStatus' = 200
    /\ oPc' = "idle"
    /\ oConv' = 0
    /\ UNCHANGED <<nConv, session_conv, vPc, reqConv, reqMessage, reqRow, sends, otherSends>>
    /\ UNCHANGED <<clientVars, pdfVars, searchVars, resVars>>

\* The second send request, lines 111-114: its client call failed.
OtherSendFail ==
    /\ oPc = "saved"
    /\ httpStatus' = 500
    /\ oPc' = "idle"
    /\ oConv' = 0
    /\ UNCHANGED <<nConv, convTitle, dbMessages, session_conv, vPc, reqConv, reqMessage,
                   reqRow, sends, otherSends>>
    /\ UNCHANGED <<clientVars, pdfVars, searchVars, resVars>>

\* Two send requests of one session next to each other: the first is followed
\* step by step, the second through what it writes.
RaceNext ==
    \/ \E conversation_id \in 1..MaxConversations : SwitchConversation(conversation_id)
    \/ \E raw \in RawMessages : SendOpen(raw)
    \/ OtherSendSaves
    \/ OtherSendFinish
    \/ OtherSendFail
    \/ SendCallClient
    \/ \E response \in ViewResponses : ApiCall(response)
    \/ ApiRaise
    \/ LoopExit
    \/ SkipBlock
    \/ ToolBlock
    \/ ToolsDone
    \/ SendFinish
    \/ SendFail

ViewNext ==
    \/ Index
    \/ NewConversation
    \/ \E conversation_id \in 1..MaxConversations + 1 : SwitchConversation(conversation_id)
    \/ \E raw \in RawMessages : SendOpen(raw)
    \/ SendCallClient
    \/ \E response \in ViewResponses : ApiCall(response)
    \/ ApiRaise
    \/ LoopExit
    \/ SkipBlock
    \/ ToolBlock
    \/ ToolsDone
    \/ SendFinish
    \/ SendFail

\* The tables as a new session may find them: empty, or with a conversation that
\* an earlier session left after one exchange (its title set from the message).
EarlierExchange ==
    <<MessageRow(1, "user", <<"h", "i">>, PyNone),
      MessageRow(1, "assistant", <<"a">>, PyNone)>>

\* A conversation left by a send request that saved its user message and then
\* failed (lines 66-68, 111-114): the title is still the default.
FailedRequest == <<MessageRow(1, "user", <<"h", "i">>, PyNone)>>

\* The tables an earlier session may have left: the title and rows of
\* conversation 1.
EarlierTables ==
    { [title |-> TitleOf(<<"h", "i">>), rows |-> EarlierExchange],
      [title |-> NewChat, rows |-> FailedRequest] }

InitView ==
    /\ ClientInit
    /\ PdfInit
    /\ SearchInit
    /\ ResInit
    /\ \/ ViewInit
       \/ /\ nConv = 1
          /\ \E earlier \in EarlierTables :
                /\ convTitle = <<earlier.title>>
                /\ dbMessages = earlier.rows
          /\ session_conv = 0
          /\ vPc = "idle"
          /\ reqConv = 0
          /\ reqMessage = <<>>
          /\ httpStatus = 0
          /\ sends = 0
          /\ reqRow = 0
          /\ oPc = "idle"
          /\ oConv = 0
          /\ otherSends = 0

----------------------------------------------------------------------------
\* Properties of the views.

\* The step in which a send request saves its user message.
SendSaves == vPc = "idle" /\ vPc' = "saved"

\* The step in which a send request completes successfully.
SendCompletes == vPc = "client" /\ vPc' = "idle" /\ httpStatus' = 200

\* The rows of a conversation after the step.
MessagesAfter(conversation) ==
    SelectSeq(dbMessages', LAMBDA row : row.conversation = conversation)

\* C9: a send request that completes successfully has appended two rows to the
\* conversation that was current when it began, and no other row: first the user
\* message, then the assistant message, which holds the list of the tool calls
\* made in the request, or null when there were none; the rows of every other
\* conversation are as they were, and no other step writes a row.
C9_SendAppendsTwoMessages ==
    [][ /\ SendSaves =>
              /\ Exists(session_conv)
              /\ reqConv' = session_conv
              /\ dbMessages' = Append(dbMessages,
                                      MessageRow(session_conv, "user", reqMessage', PyNone))
        /\ SendCompletes =>
              /\ dbMessages[Len(dbMessages)] = MessageRow(reqConv, "user", reqMessage, PyNone)
              /\ dbMessages' =
                    Append(dbMessages,
                           MessageRow(reqConv, "assistant", result.items.response,
                                      IF Len(tool_calls_made) = 0 THEN PyNone
                                      ELSE PyList(tool_calls_made)))
              /\ \A c \in 1..nConv : c # reqConv => MessagesAfter(c) = MessagesOf(c)
        /\ ~ SendSaves /\ ~ SendCompletes => UNCHANGED dbMessages
      ]_vars

\* C9 witness: a send request with a tool round has completed in conversation 2
\* after the session was switched away during it, conversation 1 has its two
\* rows, and the assistant row holds the one tool call.
C9_Witness ==
    /\ vPc = "idle"
    /\ httpStatus = 200
    /\ sends = 1
    /\ session_conv = 1
    /\ Len(dbMessages) = 4
    /\ MessagesOf(1) = EarlierExchange
    /\ dbMessages[3].conversation = 2 /\ dbMessages[3].role = "user"
    /\ dbMessages[4].conversation = 2 /\ dbMessages[4].role = "assistant"
    /\ dbMessages[4].tool_calls.py = "list"
    /\ Len(dbMessages[4].tool_calls.l) = 1

\* A conversation has an assistant row: an exchange in it has completed.
HasExchange(conversation) ==
    \E i \in 1..Len(dbMessages) :
        dbMessages[i].conversation = conversation /\ dbMessages[i].role = "assistant"

\* C12: the send request that completes the first exchange of a conversation
\* sets its title to the user message of the request, cut to 50 characters and
\* "..." when it is longer; a request that completes a later exchange leaves the
\* title as it is, and the titles of the other conversations are never touched.
C12_TitleFromFirstExchange ==
    [][ SendCompletes =>
          /\ convTitle'[reqConv] =
                IF ~ HasExchange(reqConv)
                THEN IF Len(reqMessage) > 50
                     THEN SubSeq(reqMessage, 1, 50) \o <<".", ".", ".">>
                     ELSE reqMessage
                ELSE convTitle[reqConv]
          /\ \A c \in 1..nConv : c # reqConv => convTitle'[c] = convTitle[c]
      ]_vars

\* The part of C12 that the count of line 95 gives: the title is set by the
\* request that brings the conversation to two rows, by no other, and no view
\* but the send view changes a title.
C12_TitleWhenTwoRows ==
    [][ /\ SendCompletes =>
              /\ convTitle'[reqConv] =
                    IF Len(MessagesOf(reqConv)) = 1
                    THEN IF Len(reqMessage) > 50
                         THEN SubSeq(reqMessage, 1, 50) \o <<".", ".", ".">>
                         ELSE reqMessage
                    ELSE convTitle[reqConv]
              /\ \A c \in 1..nConv : c # reqConv => convTitle'[c] = convTitle[c]
        /\ ~ SendCompletes =>
              \A c \in 1..nConv : convTitle'[c] = convTitle[c]
      ]_vars

\* The rows of the conversation of the request in flight that were saved before
\* its own user message, of role user or assistant, as the dicts of a history.
EarlierMessages ==
    LET earlier == SelectSeq(SubSeq(dbMessages, 1, reqRow - 1),
                             LAMBDA row : /\ row.conversation = reqConv
                                          /\ row.role \in {"user", "assistant"})
    IN [i \in 1..Len(earlier) |->
           [role |-> earlier[i].role, content |-> PyStr(earlier[i].content)]]

\* C15: the history a send request passes to the model client is the earlier
\* user and assistant messages of its conversation in creation order, without
\* the user message the request itself has just saved; so also when a second
\* send request on the conversation runs next to it.
C15_HistoryIsEarlierMessages ==
    vPc = "client" =>
        /\ histLen = Len(EarlierMessages)
        /\ SubSeq(messages, 1, histLen) = EarlierMessages

\* The state C15 fails in: the second request saved its user message between
\* the save and the read of the first, whose history then holds its own message
\* and lacks nothing but the other's.
C15_OwnMessageInHistory ==
    /\ vPc = "client"
    /\ histLen = Len(EarlierMessages) + 1
    /\ messages[histLen] = [role |-> "user", content |-> PyStr(reqMessage)]
    /\ dbMessages[reqRow + 1].content = OtherMessage

\* C16: whenever the session's current_conversation_id is set, it is the id of a
\* conversation that exists; and a switch request to an id that no conversation
\* has is answered with 404 and leaves the session's current conversation as it
\* was.
C16_SessionNamesConversation ==
    /\ [](session_conv # 0 => session_conv \in 1..nConv)
    /\ [][ \A conversation_id \in 1..MaxConversations + 1 :
              (conversation_id \notin 1..nConv /\ SwitchConversation(conversation_id))
                  => (httpStatus' = 404 /\ session_conv' = session_conv)
         ]_vars

\* C16 witness: after two conversations were created and the session switched
\* back to the first, a switch to an id that does not exist was answered 404,
\* and the session still names the first.
C16_Witness ==
    /\ nConv = 2
    /\ dbMessages = <<>>
    /\ session_conv = 1
    /\ httpStatus = 404
    /\ sends = 0
    /\ otherSends = 0

----------------------------------------------------------------------------
\* The specifications.

Init == ClientInit /\ PdfInit /\ ViewInit /\ SearchInit /\ ResInit

\* One invocation of MCPClient.send_message.
Next == ClientNext

Spec == Init /\ [][Next]_vars

\* One invocation of VoIPDocsServer._extract_pdf_text.
NextPdf == PdfNext

SpecPdf == Init /\ [][NextPdf]_vars

\* One invocation of VoIPDocsServer._search_docs.
NextSearch == SearchNext

SpecSearch == Init /\ [][NextSearch]_vars

\* One invocation of MCPClient.get_all_resources.
NextRes == ResNext

SpecRes == Init /\ [][NextRes]_vars

\* The views of one session, with one send request in flight at a time.
NextView == ViewNext

SpecView == InitView /\ [][NextView]_vars

\* Two send requests of one session next to each other.
NextRace == RaceNext

SpecRace == InitView /\ [][NextRace]_vars

====
